---- MODULE Spec2Model ----
(***************************************************************************)
(* A model of InsDataMgr (gnss_ins_sim/sim/ins_data_manager.py): the fixed *)
(* catalog of named series, the list of available names, add_data /        *)
(* get_data, the error statistics and the attitude derivation table.       *)
(*                                                                         *)
(* Numbers.  Every stored number is an integer k that stands for the float *)
(* k * D2R (D2R = pi/180, demo_free_integration.py), so that 180 stands    *)
(* for pi and 360 for 2*pi.  Statistics are linear in that scale, and the  *)
(* angle wrap works on it exactly.  A mean is kept as a reduced fraction   *)
(* <<num, den>> and a standard deviation as the reduced fraction of its    *)
(* square (the population variance), so no rounding is modelled.           *)
(*                                                                         *)
(* Optional arguments.  Python's None for an optional argument is <<>>,    *)
(* a given argument x is <<x>>.                                            *)
(***************************************************************************)
EXTENDS Integers, Sequences, FiniteSets, TLC

VARIABLES
    data,           \* __all[name].data for every catalog name
    nav_frame,      \* ref_frame.data as __init__ set it; it decides the units
    available,      \* self.available, a list of names
    last,           \* the call made last and its arguments
    ret             \* what that call returned, raised and printed

vars == <<data, nav_frame, available, last, ret>>

(***************************************************************************)
(* Bounds of the model.                                                    *)
(***************************************************************************)
MaxRuns  == 2     \* run keys are 0 .. MaxRuns-1
MaxNames == 2     \* longest list of names handed to get_data
MaxLen   == 2     \* most samples (rows) of an array in the statistics model

FsImu == 100      \* fs = 100.0, the IMU sample frequency of the demo

RunKeys == 0 .. (MaxRuns - 1)

(***************************************************************************)
(* Values of a series' data slot.                                          *)
(***************************************************************************)
None == <<>>
Some(x) == <<x>>

NoneV == [kind |-> "None"]
Scalar(x) == [kind |-> "scalar", x |-> x]
Arr(rows) == [kind |-> "ndarray", rows |-> rows]
\* A dict keeps its keys in insertion order: keys is that order, runs the
\* entries.
Dict(keys, runs) == [kind |-> "dict", keys |-> keys, runs |-> runs]

IsArr(v) == v.kind = "ndarray"
IsDict(v) == v.kind = "dict"

(***************************************************************************)
(* The catalog: the keys of __all, and the units each Sim_data is built    *)
(* with.  A Sim_data built without units has the empty list.               *)
(***************************************************************************)
CatalogKeys ==
    {"fs", "fs_gps", "fs_mag", "ref_frame", "time", "gps_time",
     "ref_pos", "ref_vel", "ref_att_euler", "ref_att_quat", "ref_gyro",
     "ref_accel", "ref_gps", "ref_mag",
     "gyro", "accel", "gps", "mag",
     "algo_time", "pos", "vel", "att_quat", "att_euler", "wb", "ab",
     "allan_t", "ad_gyro", "ad_accel"}

\* ref_frame.data as the constructor sets it: 0 or 1, anything else is 0.
RefFrameData(ref_frame) == IF ref_frame = 0 \/ ref_frame = 1 THEN ref_frame ELSE 0

RefPosUnits(frame) ==
    IF frame = 1 THEN <<"m", "m", "m">> ELSE <<"rad", "rad", "m">>

RefPosOutputUnits(frame) ==
    IF frame = 1 THEN <<"m", "m", "m">> ELSE <<"deg", "deg", "m">>

RefGpsUnits(frame) ==
    IF frame = 1 THEN <<"m", "m", "m", "m/s", "m/s", "m/s">>
    ELSE <<"rad", "rad", "m", "m/s", "m/s", "m/s">>

RefGpsOutputUnits(frame) ==
    IF frame = 1 THEN <<"m", "m", "m", "m/s", "m/s", "m/s">>
    ELSE <<"deg", "deg", "m", "m/s", "m/s", "m/s">>

\* The units= argument of every Sim_data(...) of the constructor.
DeclaredUnits(frame) ==
    [n \in CatalogKeys |->
        CASE n \in {"fs", "fs_gps", "fs_mag"} -> <<"Hz">>
          [] n \in {"ref_frame", "ref_att_quat", "att_quat"} -> <<>>
          [] n \in {"time", "gps_time", "algo_time"} -> <<"sec">>
          [] n \in {"ref_pos", "pos"} -> RefPosUnits(frame)
          [] n \in {"ref_vel", "vel"} -> <<"m/s", "m/s", "m/s">>
          [] n \in {"ref_att_euler", "att_euler"} -> <<"rad", "rad", "rad">>
          [] n \in {"ref_gyro", "gyro", "wb", "ad_gyro"} -> <<"rad/s", "rad/s", "rad/s">>
          [] n \in {"ref_accel", "accel", "ab", "ad_accel"} -> <<"m/s^2", "m/s^2", "m/s^2">>
          [] n \in {"ref_gps", "gps"} -> RefGpsUnits(frame)
          [] n \in {"ref_mag", "mag"} -> <<"uT", "uT", "uT">>
          [] n = "allan_t" -> <<"s">>]

\* The output_units= argument where one is given; a Sim_data built without
\* output units uses its units.
DeclaredOutputUnits(frame) ==
    [n \in CatalogKeys |->
        CASE n = "ref_pos" -> RefPosOutputUnits(frame)
          [] n \in {"ref_att_euler", "att_euler"} -> <<"deg", "deg", "deg">>
          [] n \in {"ref_gyro", "gyro", "wb"} -> <<"deg/s", "deg/s", "deg/s">>
          [] n \in {"ref_gps", "gps"} -> RefGpsOutputUnits(frame)
          [] OTHER -> DeclaredUnits(frame)[n]]

\* __all[name].units and __all[name].output_units: __init__ sets them from
\* ref_frame and nothing assigns them afterwards.
units == DeclaredUnits(nav_frame)

output_units == DeclaredOutputUnits(nav_frame)

\* self.data_map: target name -> <<counterpart series, transform>>.
data_map ==
    [n \in {"ref_att_euler", "ref_att_quat", "att_euler", "att_quat"} |->
        CASE n = "ref_att_euler" -> <<"ref_att_quat", "euler2quat_zyx">>
          [] n = "ref_att_quat"  -> <<"ref_att_euler", "quat2euler_zyx">>
          [] n = "att_euler"     -> <<"att_quat", "euler2quat_zyx">>
          [] n = "att_quat"      -> <<"att_euler", "quat2euler_zyx">>]

(***************************************************************************)
(* Sequence helpers.                                                       *)
(***************************************************************************)
\* The function f of domain 1..n as a sequence.
AsSeq(f) == <<>> \o f

InList(x, s) == \E i \in 1..Len(s) : s[i] = x

Count(x, s) == Cardinality({i \in 1..Len(s) : s[i] = x})

(***************************************************************************)
(* Calls and results.                                                      *)
(***************************************************************************)
NoCall ==
    [op |-> "construct", names |-> <<>>, value |-> NoneV, key |-> None,
     units |-> None, end_point |-> FALSE, angle |-> FALSE,
     use_output_units |-> FALSE, opt |-> None]

Call(op, names) == [NoCall EXCEPT !.op = op, !.names = names]

NoPrint == <<>>
Printed(msg, name) == <<[msg |-> msg, name |-> name]>>

Return(v, printed) == [kind |-> "return", val |-> v, exc |-> "", printed |-> printed]
Raise(exc) == [kind |-> "raise", val |-> NoneV, exc |-> exc, printed |-> NoPrint]
RaiseAfter(exc, printed) == [kind |-> "raise", val |-> NoneV, exc |-> exc, printed |-> printed]

(***************************************************************************)
(* Construction: InsDataMgr(fs, ref_frame).  fs[0] is never None here (the *)
(* constructor raises and no object exists); fs[1] and fs[2] may be None.  *)
(***************************************************************************)
FsInputs == {<<Some(FsImu), Some(0), None>>}

RefFrameInputs == {0, 1, 2}

InitData(fs, ref_frame) ==
    [n \in CatalogKeys |->
        CASE n = "ref_frame" -> Scalar(RefFrameData(ref_frame))
          [] n = "fs" -> Scalar(fs[1][1])
          [] n = "fs_gps" /\ fs[2] # None -> Scalar(fs[2][1])
          [] n = "fs_mag" /\ fs[3] # None -> Scalar(fs[3][1])
          [] OTHER -> NoneV]

InitAvailable(fs) ==
    <<"ref_frame", "fs">>
        \o (IF fs[2] # None THEN <<"fs_gps">> ELSE <<>>)
        \o (IF fs[3] # None THEN <<"fs_mag">> ELSE <<>>)

Construct(fs, ref_frame) ==
    /\ data = InitData(fs, ref_frame)
    /\ nav_frame = RefFrameData(ref_frame)
    /\ available = InitAvailable(fs)
    /\ last = NoCall
    /\ ret = Return(NoneV, NoPrint)

Init == \E fs \in FsInputs, ref_frame \in RefFrameInputs : Construct(fs, ref_frame)

(***************************************************************************)
(* Sim_data.add_data(data, key, units): the container's store.  With units *)
(* given, their number must equal that of the series' units; units that    *)
(* differ from the series' own are converted first.  Without a key the     *)
(* value replaces the slot; with a key the slot becomes a dict unless it   *)
(* is one already, and the entry of that key is set.                       *)
(* The result is <<exception, new slot>>, the exception "" when none.      *)
(***************************************************************************)
DictSet(d, k, v) ==
    IF InList(k, d.keys)
    THEN Dict(d.keys, [d.runs EXCEPT ![k] = v])
    ELSE Dict(Append(d.keys, k), [j \in DOMAIN d.runs \cup {k} |->
                                      IF j = k THEN v ELSE d.runs[j]])

EmptyDict == Dict(<<>>, [j \in {} |-> NoneV])

\* The power of D2R by which convert_unit scales a column: rad -> deg and
\* rad/s -> deg/s divide by D2R, deg -> rad and deg/s -> rad/s multiply by
\* it, equal or unrelated units leave the column alone.
UnitScale(src, dst) ==
    CASE src = "rad" /\ dst = "deg" -> -1
      [] src = "rad/s" /\ dst = "deg/s" -> -1
      [] src = "deg" /\ dst = "rad" -> 1
      [] src = "deg/s" /\ dst = "rad/s" -> 1
      [] OTHER -> 0

\* convert_unit(x, src_units, dst_units): x with column i scaled by
\* D2R^scale[i].  The scaled value keeps the integers of x and names the
\* powers next to them.
ConvertUnit(x, src_units, dst_units) ==
    [kind |-> "converted", x |-> x,
     scale |-> [i \in 1..Len(src_units) |-> UnitScale(src_units[i], dst_units[i])]]

SimDataAddData(slot, own_units, value, key, given_units) ==
    IF given_units # None /\ Len(given_units[1]) # Len(own_units)
    THEN <<"ValueError", slot>>
    ELSE LET v == IF given_units # None /\ given_units[1] # own_units
                  THEN ConvertUnit(value, given_units[1], own_units)
                  ELSE value
         IN  IF key = None
             THEN <<"", v>>
             ELSE <<"", DictSet(IF IsDict(slot) THEN slot ELSE EmptyDict, key[1], v)>>

(***************************************************************************)
(* InsDataMgr.add_data(data_name, data, key, units).                       *)
(***************************************************************************)
\* The branch for a name of the catalog: store, then mark available.
AddDataStore(data_name, value, key, given_units) ==
    LET r == SimDataAddData(data[data_name], units[data_name], value, key, given_units)
    IN  IF r[1] # ""
        THEN /\ ret' = Raise(r[1])
             /\ UNCHANGED <<data, available>>
        ELSE /\ data' = [data EXCEPT ![data_name] = r[2]]
             /\ available' = IF ~InList(data_name, available)
                             THEN Append(available, data_name)
                             ELSE available
             /\ ret' = Return(NoneV, NoPrint)

AddDataCall(data_name, value, key, given_units) ==
    [Call("add_data", <<data_name>>) EXCEPT
         !.value = value, !.key = key, !.units = given_units]

\* add_data with the name marked available before the catalog is looked at.
add_data_marks_first(data_name, value, key, given_units) ==
    /\ last' = AddDataCall(data_name, value, key, given_units)
    /\ UNCHANGED nav_frame
    /\ IF data_name \in CatalogKeys
       THEN AddDataStore(data_name, value, key, given_units)
       ELSE /\ ret' = Raise("ValueError")
            /\ available' = Append(available, data_name)
            /\ UNCHANGED data

\* add_data that takes a name outside the catalog without complaint.
add_data_takes_any(data_name, value, key, given_units) ==
    /\ last' = AddDataCall(data_name, value, key, given_units)
    /\ UNCHANGED nav_frame
    /\ IF data_name \in CatalogKeys
       THEN AddDataStore(data_name, value, key, given_units)
       ELSE /\ ret' = Return(NoneV, NoPrint)
            /\ available' = IF ~InList(data_name, available)
                            THEN Append(available, data_name)
                            ELSE available
            /\ UNCHANGED data

\* add_data that stores the value and never marks the name available.
add_data_never_marks(data_name, value, key, given_units) ==
    /\ last' = AddDataCall(data_name, value, key, given_units)
    /\ UNCHANGED <<nav_frame, available>>
    /\ IF data_name \in CatalogKeys
       THEN LET r == SimDataAddData(data[data_name], units[data_name], value, key,
                                    given_units)
            IN  IF r[1] # ""
                THEN ret' = Raise(r[1]) /\ UNCHANGED data
                ELSE /\ data' = [data EXCEPT ![data_name] = r[2]]
                     /\ ret' = Return(NoneV, NoPrint)
       ELSE ret' = Raise("ValueError") /\ UNCHANGED data

\* add_data that appends the name to available on every call.
add_data_appends_always(data_name, value, key, given_units) ==
    /\ last' = AddDataCall(data_name, value, key, given_units)
    /\ UNCHANGED nav_frame
    /\ IF data_name \in CatalogKeys
       THEN LET r == SimDataAddData(data[data_name], units[data_name], value, key,
                                    given_units)
            IN  IF r[1] # ""
                THEN ret' = Raise(r[1]) /\ UNCHANGED <<data, available>>
                ELSE /\ data' = [data EXCEPT ![data_name] = r[2]]
                     /\ available' = Append(available, data_name)
                     /\ ret' = Return(NoneV, NoPrint)
       ELSE ret' = Raise("ValueError") /\ UNCHANGED <<data, available>>

add_data(data_name, value, key, given_units) ==
    /\ last' = AddDataCall(data_name, value, key, given_units)
    /\ UNCHANGED nav_frame
    /\ IF data_name \in CatalogKeys
       THEN AddDataStore(data_name, value, key, given_units)
       ELSE /\ ret' = Raise("ValueError")
            /\ UNCHANGED <<data, available>>

(***************************************************************************)
(* InsDataMgr.get_data(data_names): the values of the names in order, or   *)
(* None, with the name printed, at the first name that is not available.   *)
(***************************************************************************)
RECURSIVE GetDataLoop(_, _, _, _)
GetDataLoop(d, avail, data_names, acc) ==
    IF data_names = <<>>
    THEN Return([kind |-> "list", items |-> acc], NoPrint)
    ELSE LET i == Head(data_names)
         IN  IF InList(i, avail)
             THEN GetDataLoop(d, avail, Tail(data_names), Append(acc, d[i]))
             ELSE Return(NoneV, Printed("is not available", i))

\* get_data that hands back what it has collected when a name is missing.
RECURSIVE GetDataLoopPartial(_, _, _, _)
GetDataLoopPartial(d, avail, data_names, acc) ==
    IF data_names = <<>>
    THEN Return([kind |-> "list", items |-> acc], NoPrint)
    ELSE LET i == Head(data_names)
         IN  IF InList(i, avail)
             THEN GetDataLoopPartial(d, avail, Tail(data_names), Append(acc, d[i]))
             ELSE Return([kind |-> "list", items |-> acc],
                         Printed("is not available", i))

GetDataResultPartial(d, avail, data_names) ==
    GetDataLoopPartial(d, avail, data_names, <<>>)

GetDataResult(d, avail, data_names) == GetDataLoop(d, avail, data_names, <<>>)

get_data(data_names) ==
    /\ last' = Call("get_data", data_names)
    /\ ret' = GetDataResult(data, available, data_names)
    /\ UNCHANGED <<data, nav_frame, available>>

(***************************************************************************)
(* InsDataMgr.get_data_all and is_supported.                               *)
(***************************************************************************)
get_data_all(data_name) ==
    /\ last' = Call("get_data_all", <<data_name>>)
    /\ ret' = IF data_name \in CatalogKeys
              THEN Return([kind |-> "Sim_data", name |-> data_name,
                           data |-> data[data_name]], NoPrint)
              ELSE Return(NoneV, NoPrint)
    /\ UNCHANGED <<data, nav_frame, available>>

is_supported(data_name) ==
    /\ last' = Call("is_supported", <<data_name>>)
    /\ ret' = Return([kind |-> "bool", b |-> data_name \in CatalogKeys], NoPrint)
    /\ UNCHANGED <<data, nav_frame, available>>

(***************************************************************************)
(* Arithmetic of the statistics.                                           *)
(***************************************************************************)
Abs(x) == IF x < 0 THEN -x ELSE x

MaxOf(S) == CHOOSE x \in S : \A y \in S : y <= x

RECURSIVE GCD(_, _)
GCD(a, b) == IF b = 0 THEN a ELSE GCD(b, a % b)

\* The fraction n/d, d > 0, in lowest terms.
Frac(n, d) == LET g == GCD(Abs(n), d) IN <<n \div g, d \div g>>

RECURSIVE SumSeq(_)
SumSeq(s) == IF s = <<>> THEN 0 ELSE Head(s) + SumSeq(Tail(s))

\* attitude.angle_range_pi(x): x brought into [-pi, pi] by whole turns.
angle_range_pi(x) == LET w == x % 360 IN IF w > 180 THEN w - 360 ELSE w

\* np.max(np.abs(c)), np.average(c) and np.std(c) of one column c, a
\* non-empty sequence of numbers.  std is the square root of the mean of
\* the squared deviations from the mean; the fraction kept is that mean.
ColMax(c) == MaxOf({Abs(c[i]) : i \in 1..Len(c)})

ColAvg(c) == Frac(SumSeq(c), Len(c))

ColStd(c) ==
    LET m == Len(c)
        s == SumSeq(c)
        dev2 == AsSeq([i \in 1..m |-> (m * c[i] - s) * (m * c[i] - s)])
    IN  Frac(SumSeq(dev2), m * m * m)

(***************************************************************************)
(* Arrays.  A two-dimensional array is a non-empty sequence of rows of one *)
(* length; an error array x is <<2, rows>> or <<1, vector>>.               *)
(***************************************************************************)
NRows(a) == Len(a.rows)
NCols(a) == Len(a.rows[1])
LastRow(a) == a.rows[Len(a.rows)]

Vec(v) == [kind |-> "vector", v |-> v]

Bigger(a, b) == IF a > b THEN a ELSE b

\* numpy broadcasting of one axis: equal lengths, or one of them 1.
AxisOk(a, b) == a = b \/ a = 1 \/ b = 1
Pick(len, i) == IF len = 1 THEN 1 ELSE i

\* u - v for two vectors.
SubVec(u, v) ==
    AsSeq([j \in 1..Bigger(Len(u), Len(v)) |-> u[Pick(Len(u), j)] - v[Pick(Len(v), j)]])

\* a - b for the rows of two two-dimensional arrays.
SubRows(a, b) ==
    AsSeq([i \in 1..Bigger(Len(a), Len(b)) |->
               SubVec(a[Pick(Len(a), i)], b[Pick(Len(b), i)])])

Column(rows, j) == AsSeq([i \in 1..Len(rows) |-> rows[i][j]])

(***************************************************************************)
(* InsDataMgr.__array_stat(x, angle).  With angle set every element of x   *)
(* is wrapped first; the three statistics reduce axis 0, so a (m, n) array *)
(* gives vectors of length n and a one-dimensional array gives scalars.    *)
(***************************************************************************)
\* __array_stat without the wrap: the errors are reduced as they are.
WrapFlatNever(x, angle) == x

WrapFlat(x, angle) ==
    IF ~angle THEN x
    ELSE IF x[1] = 2
         THEN <<2, AsSeq([i \in 1..Len(x[2]) |->
                      AsSeq([j \in 1..Len(x[2][i]) |-> angle_range_pi(x[2][i][j])])])>>
         ELSE <<1, AsSeq([j \in 1..Len(x[2]) |-> angle_range_pi(x[2][j])])>>

array_stat(x, angle) ==
    LET y == WrapFlat(x, angle)
    IN  IF y[1] = 2
        THEN LET n == Len(y[2][1])
             IN  [max |-> Vec(AsSeq([j \in 1..n |-> ColMax(Column(y[2], j))])),
                  avg |-> Vec(AsSeq([j \in 1..n |-> ColAvg(Column(y[2], j))])),
                  std |-> Vec(AsSeq([j \in 1..n |-> ColStd(Column(y[2], j))]))]
        ELSE [max |-> Scalar(ColMax(y[2])),
              avg |-> Scalar(ColAvg(y[2])),
              std |-> Scalar(ColStd(y[2]))]

StatOf(t) == [kind |-> "stat", max |-> t.max, avg |-> t.avg, std |-> t.std]

(***************************************************************************)
(* InsDataMgr.__end_point_error_stat(data_name, angle): the statistics of  *)
(* the errors at the last sample.  For a dict the error of each run is a   *)
(* row of a two-dimensional array; for an array the error is the one       *)
(* vector data[-1, :] - ref[-1, :].                                        *)
(***************************************************************************)
RefName(data_name) == "ref_" \o data_name

\* The loop over the dict taking the first sample of each run and of the
\* reference in place of the last.
RECURSIVE EndPointErrorsFirst(_, _, _, _)
EndPointErrorsFirst(keys, runs, ref, acc) ==
    IF keys = <<>> THEN <<"", acc>>
    ELSE IF ~IsArr(runs[Head(keys)]) THEN <<"TypeError", acc>>
    ELSE IF IsDict(ref) THEN <<"TypeError", acc>>
    ELSE IF ~IsArr(ref) THEN <<"TypeError", acc>>
    ELSE IF ~AxisOk(NCols(runs[Head(keys)]), NCols(ref)) THEN <<"ValueError", acc>>
    ELSE EndPointErrorsFirst(Tail(keys), runs, ref,
                             Append(acc, SubVec(runs[Head(keys)].rows[1], ref.rows[1])))

\* The list of per-run errors of the loop over the dict, or the exception
\* that ends it: <<exception, errors>>.
RECURSIVE EndPointErrors(_, _, _, _)
EndPointErrors(keys, runs, ref, acc) ==
    IF keys = <<>> THEN <<"", acc>>
    ELSE IF ~IsArr(runs[Head(keys)]) THEN <<"TypeError", acc>>
    ELSE IF IsDict(ref) THEN <<"TypeError", acc>>
    ELSE IF ~IsArr(ref) THEN <<"TypeError", acc>>
    ELSE IF ~AxisOk(NCols(runs[Head(keys)]), NCols(ref)) THEN <<"ValueError", acc>>
    ELSE EndPointErrors(Tail(keys), runs, ref,
                        Append(acc, SubVec(LastRow(runs[Head(keys)]), LastRow(ref))))

Rectangular(rows) == \A i \in 1..Len(rows) : Len(rows[i]) = Len(rows[1])

end_point_error_stat(d, avail, data_name, angle) ==
    IF ~InList(data_name, avail)
    THEN Return(NoneV, Printed("__end_point_error_stat: is not available", data_name))
    ELSE IF ~InList(RefName(data_name), avail)
    THEN Return(NoneV, Printed("has no reference", data_name))
    ELSE LET x == d[data_name]
             ref == d[RefName(data_name)]
         IN  IF IsDict(x)
             THEN LET e == EndPointErrors(x.keys, x.runs, ref, <<>>)
                  IN  IF e[1] # "" THEN Raise(e[1])
                      ELSE IF ~Rectangular(e[2]) THEN Raise("ValueError")
                      ELSE Return(StatOf(array_stat(<<2, e[2]>>, angle)), NoPrint)
             ELSE IF IsArr(x)
             THEN IF ~IsArr(ref) THEN Raise("TypeError")
                  ELSE IF ~AxisOk(NCols(x), NCols(ref)) THEN Raise("ValueError")
                  ELSE Return(StatOf(array_stat(<<1, SubVec(LastRow(x), LastRow(ref))>>,
                                                angle)), NoPrint)
             ELSE Return(NoneV, Printed("Unsupported data type to calculate error statitics",
                                        data_name))

(***************************************************************************)
(* InsDataMgr.__process_error_stat(data_name, angle): the statistics of    *)
(* the whole error trajectory; for a dict one triple per run, filed under  *)
(* the run's key in each of max, avg and std.                              *)
(***************************************************************************)
\* data - ref for an array and the reference: <<exception, error rows>>.
ProcessError(x, ref) ==
    IF ~IsArr(x) \/ ~IsArr(ref) THEN <<"TypeError", <<>>>>
    ELSE IF ~AxisOk(NRows(x), NRows(ref)) \/ ~AxisOk(NCols(x), NCols(ref))
    THEN <<"ValueError", <<>>>>
    ELSE <<"", SubRows(x.rows, ref.rows)>>

\* The loop over the runs: the exception that ends it, "" when none does,
\* and the three dicts it fills, each with the runs' keys in the order of
\* the loop.
RECURSIVE ProcessLoopException(_, _, _)
ProcessLoopException(keys, runs, ref) ==
    IF keys = <<>> THEN ""
    ELSE IF ProcessError(runs[Head(keys)], ref)[1] # ""
    THEN ProcessError(runs[Head(keys)], ref)[1]
    ELSE ProcessLoopException(Tail(keys), runs, ref)

\* The loop over the runs filing the first run's statistics under every key.
ProcessLoopShared(keys, runs, ref, angle) ==
    LET tmp == array_stat(<<2, ProcessError(runs[keys[1]], ref)[2]>>, angle)
    IN  [max |-> Dict(keys, [i \in DOMAIN runs |-> tmp.max]),
         avg |-> Dict(keys, [i \in DOMAIN runs |-> tmp.avg]),
         std |-> Dict(keys, [i \in DOMAIN runs |-> tmp.std])]

ProcessLoop(keys, runs, ref, angle) ==
    LET tmp == [i \in DOMAIN runs |->
                   array_stat(<<2, ProcessError(runs[i], ref)[2]>>, angle)]
    IN  [max |-> Dict(keys, [i \in DOMAIN runs |-> tmp[i].max]),
         avg |-> Dict(keys, [i \in DOMAIN runs |-> tmp[i].avg]),
         std |-> Dict(keys, [i \in DOMAIN runs |-> tmp[i].std])]

process_error_stat(d, avail, data_name, angle) ==
    IF ~InList(data_name, avail)
    THEN Return(NoneV, Printed("__process_error_stat: is not available", data_name))
    ELSE IF ~InList(RefName(data_name), avail)
    THEN Return(NoneV, Printed("has no reference", data_name))
    ELSE LET x == d[data_name]
             ref == d[RefName(data_name)]
         IN  IF IsDict(x)
             THEN IF ProcessLoopException(x.keys, x.runs, ref) # ""
                  THEN Raise(ProcessLoopException(x.keys, x.runs, ref))
                  ELSE Return(StatOf(ProcessLoop(x.keys, x.runs, ref, angle)), NoPrint)
             ELSE IF IsArr(x)
             THEN LET e == ProcessError(x, ref)
                  IN  IF e[1] # "" THEN Raise(e[1])
                      ELSE Return(StatOf(array_stat(<<2, e[2]>>, angle)), NoPrint)
             ELSE Return(NoneV, Printed("Unsupported data type to calculate error statitics",
                                        data_name))

(***************************************************************************)
(* InsDataMgr.get_error_stat(data_name, end_point, angle,                  *)
(* use_output_units).  With use_output_units every leaf of the result is   *)
(* converted from the series' units to its output units; the loop over     *)
(* the result is entered whatever the result is.                           *)
(***************************************************************************)
ConvertStatEntry(e, src_units, dst_units) ==
    IF IsDict(e)
    THEN Dict(e.keys, [j \in DOMAIN e.runs |-> ConvertUnit(e.runs[j], src_units, dst_units)])
    ELSE ConvertUnit(e, src_units, dst_units)

GetErrorStatResult(d, avail, u, ou, data_name, end_point, angle, use_output_units) ==
    LET err_stat == IF end_point
                    THEN end_point_error_stat(d, avail, data_name, angle)
                    ELSE process_error_stat(d, avail, data_name, angle)
    IN  IF err_stat.kind = "raise" \/ ~use_output_units
        THEN err_stat
        ELSE IF err_stat.val = NoneV
        THEN RaiseAfter("TypeError", err_stat.printed)
        ELSE Return([kind |-> "stat",
                     max |-> ConvertStatEntry(err_stat.val.max, u[data_name], ou[data_name]),
                     avg |-> ConvertStatEntry(err_stat.val.avg, u[data_name], ou[data_name]),
                     std |-> ConvertStatEntry(err_stat.val.std, u[data_name], ou[data_name])],
                    err_stat.printed)

\* get_error_stat that forms the process error of a bare array in the
\* stored array itself.
get_error_stat_in_place(data_name, end_point, angle, use_output_units) ==
    LET r == GetErrorStatResult(data, available, units, output_units, data_name,
                                end_point, angle, use_output_units)
    IN  /\ last' = [Call("get_error_stat", <<data_name>>) EXCEPT
                        !.end_point = end_point, !.angle = angle,
                        !.use_output_units = use_output_units]
        /\ ret' = r
        /\ data' = IF r.kind = "return" /\ r.val # NoneV /\ ~end_point
                      /\ IsArr(data[data_name])
                   THEN [data EXCEPT ![data_name] =
                            Arr(ProcessError(data[data_name], data[RefName(data_name)])[2])]
                   ELSE data
        /\ UNCHANGED <<nav_frame, available>>

get_error_stat(data_name, end_point, angle, use_output_units) ==
    /\ last' = [Call("get_error_stat", <<data_name>>) EXCEPT
                    !.end_point = end_point, !.angle = angle,
                    !.use_output_units = use_output_units]
    /\ ret' = GetErrorStatResult(data, available, units, output_units, data_name,
                                 end_point, angle, use_output_units)
    /\ UNCHANGED <<data, nav_frame, available>>

(***************************************************************************)
(* attitude.quat2euler and attitude.euler2quat for one sample, ZYX.  The   *)
(* components of a quaternion stand for themselves.  Both are exact on the *)
(* half turns: Euler angles that are multiples of 180 and the quaternions  *)
(* they give.                                                              *)
(***************************************************************************)
CosHalf(a) == CASE a % 720 = 0 -> 1 [] a % 720 = 180 -> 0
                [] a % 720 = 360 -> -1 [] a % 720 = 540 -> 0

SinHalf(a) == CASE a % 720 = 0 -> 0 [] a % 720 = 180 -> 1
                [] a % 720 = 360 -> 0 [] a % 720 = 540 -> -1

euler2quat(angles) ==
    LET c == [i \in 1..3 |-> CosHalf(angles[i])]
        s == [i \in 1..3 |-> SinHalf(angles[i])]
    IN  <<c[1]*c[2]*c[3] + s[1]*s[2]*s[3],
          c[1]*c[2]*s[3] - s[1]*s[2]*c[3],
          c[1]*s[2]*c[3] + s[1]*c[2]*s[3],
          s[1]*c[2]*c[3] - c[1]*s[2]*s[3]>>

Atan2(y, x) == CASE y = 0 /\ x > 0 -> 0 [] y = 0 /\ x < 0 -> 180
                 [] y > 0 /\ x = 0 -> 90 [] y < 0 /\ x = 0 -> -90

Asin(x) == CASE x = 0 -> 0 [] x = 1 -> 90 [] x = -1 -> -90

quat2euler(q) ==
    LET c11 == q[1]*q[1] + q[2]*q[2] - q[3]*q[3] - q[4]*q[4]
        c12 == 2 * (q[2]*q[3] + q[1]*q[4])
        c13 == 2 * (q[2]*q[4] - q[1]*q[3])
        c23 == 2 * (q[3]*q[4] + q[1]*q[2])
        c33 == q[1]*q[1] - q[2]*q[2] - q[3]*q[3] + q[4]*q[4]
    IN  <<Atan2(c12, c11), -Asin(c13), Atan2(c23, c33)>>

(***************************************************************************)
(* InsDataMgr.__quat2euler_zyx(src, dst) and __euler2quat_zyx(src, dst).   *)
(* For an array dst.data is replaced by zeros and filled row by row; for a *)
(* dict each run is converted and assigned to dst.data[i], whatever        *)
(* dst.data is.  Each gives <<exception, dst.data afterwards>>.            *)
(***************************************************************************)
Zeros(n, k) == Arr([i \in 1..n |-> [j \in 1..k |-> 0]])

\* dst.data[i] = value: an entry of a dict, a row of an array.
SetItem(slot, i, value) ==
    IF IsDict(slot) THEN <<"", DictSet(slot, i, value)>>
    ELSE IF ~IsArr(slot) THEN <<"TypeError", slot>>
    ELSE IF i + 1 > NRows(slot) THEN <<"IndexError", slot>>
    ELSE IF NRows(value) = 1 /\ NCols(value) = NCols(slot)
    THEN <<"", Arr([slot.rows EXCEPT ![i + 1] = value.rows[1]])>>
    ELSE <<"ValueError", slot>>

\* The conversion of one array of n samples into rows of `width` columns,
\* reading `need` columns of each sample: <<exception, array>>.
ConvertRows(a, fn, need, width) ==
    IF NCols(a) < need THEN <<"IndexError", Zeros(NRows(a), width)>>
    ELSE <<"", Arr([j \in 1..NRows(a) |->
                      IF fn = "quat2euler" THEN quat2euler(a.rows[j])
                      ELSE euler2quat(a.rows[j])])>>

RECURSIVE TransformLoop(_, _, _, _, _, _)
TransformLoop(keys, runs, slot, fn, need, width) ==
    IF keys = <<>> THEN <<"", slot>>
    ELSE IF ~IsArr(runs[Head(keys)]) THEN <<"AttributeError", slot>>
    ELSE LET r == ConvertRows(runs[Head(keys)], fn, need, width)
             t == SetItem(slot, Head(keys), r[2])
         IN  IF r[1] # "" THEN <<r[1], slot>>
             ELSE IF t[1] # "" THEN t
             ELSE TransformLoop(Tail(keys), runs, t[2], fn, need, width)

Transform(src, dst, fn, need, width) ==
    IF IsArr(src) THEN ConvertRows(src, fn, need, width)
    ELSE IF IsDict(src) THEN TransformLoop(src.keys, src.runs, dst, fn, need, width)
    ELSE <<"ValueError", dst>>

quat2euler_zyx(src, dst) == Transform(src, dst, "quat2euler", 4, 3)

euler2quat_zyx(src, dst) == Transform(src, dst, "euler2quat", 3, 4)

\* The transform of a data_map entry run with the entry's series as src and
\* the series of the entry's key as dst.
derive(target) ==
    LET src == data_map[target][1]
        r == IF data_map[target][2] = "quat2euler_zyx"
             THEN quat2euler_zyx(data[src], data[target])
             ELSE euler2quat_zyx(data[src], data[target])
    IN  /\ last' = Call("derive", <<target>>)
        /\ data' = [data EXCEPT ![target] = r[2]]
        /\ ret' = IF r[1] # "" THEN Raise(r[1]) ELSE Return(NoneV, NoPrint)
        /\ UNCHANGED <<nav_frame, available>>

(***************************************************************************)
(* The calls a driver makes, with their arguments drawn from small sets.   *)
(***************************************************************************)
QuatInputs ==
    {Arr(<<<<0, 0, 0, 1>>>>), Arr(<<<<0, 0, 0, -1>>, <<0, 0, 0, 1>>>>)}

\* The driver adds the runs of a series in order: an indexed write goes to
\* a run that is there already or to the next one.
NumRuns(slot) == IF IsDict(slot) THEN Len(slot.keys) ELSE 0

KeyInputs(slot) == {None} \cup {Some(k) : k \in {j \in RunKeys : j <= NumRuns(slot)}}

\* <<name, value, key, units>> of the add_data calls: an algorithm output
\* added bare or per run, with no units or its own; the same with a list of
\* units of the wrong length; a reference, which is one trajectory added
\* without a key; a name outside the catalog.
AddInputs ==
    {<<"att_quat", v, k, u>> : v \in QuatInputs, k \in KeyInputs(data["att_quat"]),
                                u \in {None, Some(units["att_quat"])}}
    \cup {<<"att_quat", v, None, Some(<<"deg">>)>> : v \in QuatInputs}
    \cup {<<"ref_att_quat", v, None, None>> : v \in QuatInputs}
    \cup {<<"nosuch", v, k, None>> : v \in QuatInputs, k \in {None, Some(0)}}

GetNames == {"att_quat", "att_euler"}

RECURSIVE SeqsUpTo(_, _)
SeqsUpTo(S, n) ==
    IF n = 0 THEN {<<>>}
    ELSE LET shorter == SeqsUpTo(S, n - 1)
         IN  shorter \cup {Append(q, x) : q \in shorter, x \in S}

NameLists == SeqsUpTo(GetNames, MaxNames) \ {<<>>}

StatNames == {"att_quat"}

AddData == \E c \in AddInputs : add_data(c[1], c[2], c[3], c[4])

GetData == \E names \in NameLists : get_data(names)

GetDataAll == \E name \in {"att_quat", "nosuch"} : get_data_all(name)

IsSupported == \E name \in {"att_quat", "nosuch"} : is_supported(name)

GetErrorStat ==
    \E name \in StatNames, end_point \in BOOLEAN, angle \in BOOLEAN,
       use_output_units \in BOOLEAN :
        get_error_stat(name, end_point, angle, use_output_units)

Derive == \E target \in DOMAIN data_map : derive(target)

Next == AddData \/ GetData \/ GetDataAll \/ IsSupported \/ GetErrorStat \/ Derive

Spec == Init /\ [][Next]_vars

(***************************************************************************)
(* The statistics on their own: a registry that holds an attitude estimate *)
(* att_euler, bare, per run or a scalar, and its reference ref_att_euler,  *)
(* as add_data leaves them, and the get_error_stat calls on it.            *)
(***************************************************************************)
EstSamples == {<<10, 0, 0>>, <<12, 0, 0>>}

RefSamples == {<<11, 0, 0>>, <<-349, 180, -190>>}

\* The arrays of m samples, and of 1 .. MaxLen samples.
ArraysOfLen(samples, m) == {Arr(rows) : rows \in [1..m -> samples]}

ArraysOf(samples) == UNION {ArraysOfLen(samples, m) : m \in 1..MaxLen}

\* The dicts of runs 0 .. k-1, k = 1 .. MaxRuns, added in that order; the
\* runs of one scenario have the same number of samples.
DictsOf(samples) ==
    UNION {{Dict([i \in 1..k |-> i - 1], runs) :
                runs \in [0..(k - 1) -> ArraysOfLen(samples, m)]} :
              k \in 1..MaxRuns, m \in 1..MaxLen}

EstValues == ArraysOf(EstSamples) \cup DictsOf(EstSamples) \cup {Scalar(10)}

RefValues == ArraysOf(RefSamples)

InitStat ==
    \E est \in EstValues, ref \in RefValues :
        /\ data = [InitData(<<Some(FsImu), Some(0), None>>, 0) EXCEPT
                       !["ref_att_euler"] = ref, !["att_euler"] = est]
        /\ nav_frame = 0
        /\ available = InitAvailable(<<Some(FsImu), Some(0), None>>)
                           \o <<"ref_att_euler", "att_euler">>
        /\ last = NoCall
        /\ ret = Return(NoneV, NoPrint)

NextStat ==
    \E end_point \in BOOLEAN, angle \in BOOLEAN, use_output_units \in BOOLEAN :
        get_error_stat("att_euler", end_point, angle, use_output_units)

SpecStat == InitStat /\ [][NextStat]_vars

(***************************************************************************)
(* InsDataMgr.plot(what_to_plot, sim_idx, opt).  opt is None or a dict;    *)
(* a dict of one entry is <<name, option>>.  For each name in turn the     *)
(* options are read, and a name that is available is handed to its         *)
(* Sim_data's plot with the x axis chosen for it; the result here is the   *)
(* list of those calls and what was printed.  The drawing itself is the    *)
(* container's.                                                            *)
(***************************************************************************)
XAxis(avail, i) ==
    IF i = "ref_gps" \/ i = "gps" \/ i = "gps_time" THEN "gps_time"
    ELSE IF InList("algo_time", avail) THEN "algo_time"
    ELSE IF i = "ad_gyro" \/ i = "ad_accel" \/ i = "allan_t" THEN "allan_t"
    ELSE "time"

\* The options of one name: <<ref, plot3d, printed>>, ref and plot3d None
\* unless an option sets them.
PlotOptions(avail, i, opt) ==
    IF opt = None \/ opt[1][1] # i THEN <<None, None, NoPrint>>
    ELSE IF opt[1][2] = "3d" THEN <<None, Some(TRUE), NoPrint>>
    ELSE IF opt[1][2] = "error"
    THEN IF InList(RefName(i), avail)
         THEN <<Some(RefName(i)), None, NoPrint>>
         ELSE <<None, None, Printed("has no reference", i)>>
    ELSE <<None, None, NoPrint>>

RECURSIVE PlotLoop(_, _, _, _, _, _)
PlotLoop(avail, what_to_plot, sim_idx, opt, calls, printed) ==
    IF what_to_plot = <<>>
    THEN Return([kind |-> "plots", items |-> calls], printed)
    ELSE LET i == Head(what_to_plot)
             o == PlotOptions(avail, i, opt)
         IN  IF InList(i, avail)
             THEN PlotLoop(avail, Tail(what_to_plot), sim_idx, opt,
                           Append(calls, [name |-> i, x_axis |-> XAxis(avail, i),
                                          key |-> sim_idx, ref |-> o[1],
                                          plot3d |-> o[2]]),
                           printed \o o[3])
             ELSE PlotLoop(avail, Tail(what_to_plot), sim_idx, opt, calls,
                           printed \o o[3] \o Printed("Unsupported plot", i))

plot(what_to_plot, sim_idx, opt) ==
    /\ last' = [Call("plot", what_to_plot) EXCEPT !.key = Some(sim_idx), !.opt = opt]
    /\ ret' = PlotLoop(available, what_to_plot, sim_idx, opt, <<>>, NoPrint)
    /\ UNCHANGED <<data, nav_frame, available>>

(***************************************************************************)
(* Plotting on its own: a driver that adds each of a few series once, in   *)
(* any order, and plots.                                                   *)
(***************************************************************************)
PlotSeries == {"algo_time", "gps", "ad_gyro", "gyro", "ref_gyro"}

PlotValue == Arr(<<<<0, 0, 0>>>>)

WhatToPlot == {"gps", "ad_gyro", "gyro"}

PlotLists == SeqsUpTo(WhatToPlot, MaxNames) \ {<<>>}

OptInputs == {None, Some(<<"gyro", "error">>), Some(<<"gyro", "3d">>)}

AddSeries ==
    \E n \in PlotSeries :
        /\ ~InList(n, available)
        /\ add_data(n, PlotValue, None, None)

Plot == \E names \in PlotLists, opt \in OptInputs : plot(names, 0, opt)

NextPlot == AddSeries \/ Plot

SpecPlot == Init /\ [][NextPlot]_vars

(***************************************************************************)
(* Properties of the registry calls, checked under Spec.                   *)
(***************************************************************************)
LastName == last.names[1]

IsListOf(r) == r.kind = "return" /\ r.val.kind = "list"

\* C1: add_data with a name that is not a key of the catalog raises an
\* error and stores nothing: the value of every series and the available
\* list are after the call what they were before it.
C1_UnsupportedNameStoresNothing ==
    [][(last'.op = "add_data" /\ last'.names[1] \notin CatalogKeys)
          => (/\ ret'.kind = "raise"
              /\ ret'.exc = "ValueError"
              /\ data' = data
              /\ available' = available)]_vars

C1_Witness ==
    /\ last.op = "add_data"
    /\ LastName \notin CatalogKeys
    /\ ret.kind = "raise"
    /\ InList("att_quat", available)
    /\ IsDict(data["att_quat"])

\* C2: in every reachable state every name of the available list is a key
\* of the catalog.
C2_AvailableWithinCatalog ==
    \A i \in 1..Len(available) : available[i] \in CatalogKeys

C2_Witness ==
    /\ last.op = "derive"
    /\ ret.kind = "return"
    /\ InList("att_quat", available)
    /\ InList("ref_att_quat", available)
    /\ data["att_euler"] # NoneV

\* C3: after a successful add_data(n, v) without a run index get_data([n])
\* returns exactly v; after add_data(n, v, run_index = k) it returns a
\* run-mapping whose entry k is v; and an add_data to a run k that the
\* mapping holds already replaces that entry and leaves the number of
\* entries as it was.
C3_StoredIsReturned ==
    (last.op = "add_data" /\ ret.kind = "return") =>
        LET g == GetDataResult(data, available, <<LastName>>)
        IN  /\ IsListOf(g)
            /\ Len(g.val.items) = 1
            /\ IF last.key = None
               THEN g.val.items[1] = last.value
               ELSE /\ IsDict(g.val.items[1])
                    /\ last.key[1] \in DOMAIN g.val.items[1].runs
                    /\ g.val.items[1].runs[last.key[1]] = last.value

C3_OverwriteStep ==
    (/\ last'.op = "add_data"
     /\ ret'.kind = "return"
     /\ last'.key # None
     /\ IsDict(data[last'.names[1]])
     /\ InList(last'.key[1], data[last'.names[1]].keys))
        => (/\ IsDict(data'[last'.names[1]])
            /\ Len(data'[last'.names[1]].keys) = Len(data[last'.names[1]].keys)
            /\ DOMAIN data'[last'.names[1]].runs = DOMAIN data[last'.names[1]].runs
            /\ data'[last'.names[1]].runs[last'.key[1]] = last'.value)

C3_AddThenGet == [](C3_StoredIsReturned) /\ [][C3_OverwriteStep]_vars

C3_Witness ==
    /\ last.op = "add_data"
    /\ ret.kind = "return"
    /\ last.key = Some(0)
    /\ IsDict(data[LastName])
    /\ Len(data[LastName].keys) = 2
    /\ data[LastName].runs[0] # data[LastName].runs[1]

\* C4: when a name handed to get_data is not available the call fails as a
\* whole: it returns None, no list and no part of one, and the name it
\* reports is the first requested name that is not available.
FirstMissing(names) ==
    names[CHOOSE i \in 1..Len(names) :
              /\ ~InList(names[i], available)
              /\ \A j \in 1..(i - 1) : InList(names[j], available)]

C4_MissingNameFailsWhole ==
    (last.op = "get_data" /\ \E i \in 1..Len(last.names) : ~InList(last.names[i], available))
        => (/\ ret.kind = "return"
            /\ ret.val = NoneV
            /\ ret.printed = Printed("is not available", FirstMissing(last.names)))

C4_Witness ==
    /\ last.op = "get_data"
    /\ Len(last.names) = 2
    /\ InList(last.names[1], available)
    /\ ~InList(last.names[2], available)
    /\ ret.val = NoneV

\* C5: get_error_stat on a name that is not available fails as an
\* unavailable series, and on an available name without an available
\* ref_<name> as a missing reference, for every end_point, angle and
\* use_output_units alike, with no statistics returned.
FailsUnavailable(r, name) ==
    /\ r.kind = "return"
    /\ r.val = NoneV
    /\ r.printed \in {Printed("__end_point_error_stat: is not available", name),
                      Printed("__process_error_stat: is not available", name)}

FailsNoReference(r, name) ==
    /\ r.kind = "return"
    /\ r.val = NoneV
    /\ r.printed = Printed("has no reference", name)

C5_StatFailureIgnoresOutputUnits ==
    last.op = "get_error_stat" =>
        /\ ~InList(LastName, available) => FailsUnavailable(ret, LastName)
        /\ (InList(LastName, available) /\ ~InList(RefName(LastName), available))
               => FailsNoReference(ret, LastName)

(***************************************************************************)
(* Properties of the statistics, checked under SpecStat.  The statistics   *)
(* of a column are stated by what they are: the largest absolute value,    *)
(* the mean, and the mean squared deviation from the mean (the square of   *)
(* the population standard deviation).                                     *)
(***************************************************************************)
Plain(e) == IF e.kind = "converted" THEN e.x ELSE e

SumSq(c) == SumSeq(AsSeq([i \in 1..Len(c) |-> c[i] * c[i]]))

IsMax(c, v) ==
    /\ \E i \in 1..Len(c) : Abs(c[i]) = v
    /\ \A i \in 1..Len(c) : Abs(c[i]) <= v

IsAvg(c, f) == f[2] > 0 /\ f[1] * Len(c) = f[2] * SumSeq(c)

IsVariance(c, f) ==
    /\ f[2] > 0
    /\ f[1] * Len(c) * Len(c) = f[2] * (Len(c) * SumSq(c) - SumSeq(c) * SumSeq(c))

IsStatOf(c, mx, av, sd) == IsMax(c, mx) /\ IsAvg(c, av) /\ IsVariance(c, sd)

IsVector(e, n) == Plain(e).kind = "vector" /\ Len(Plain(e).v) = n

IsScalar(e) == Plain(e).kind = "scalar"

\* The values in [-180, 180] a whole number of turns away from e, and the
\* columns that a column of errors can be wrapped to.
Wrapped(e) == {w \in {e % 360, (e % 360) - 360} : -180 <= w /\ w <= 180}

RECURSIVE WrapChoices(_)
WrapChoices(c) ==
    IF c = <<>> THEN {<<>>}
    ELSE {<<w>> \o rest : w \in Wrapped(Head(c)), rest \in WrapChoices(Tail(c))}

ReducedAs(c, angle) == IF angle THEN WrapChoices(c) ELSE {c}

\* mx, av and sd are vectors of the statistics of the columns of rows.
ColumnsReduced(mx, av, sd, rows, angle) ==
    LET n == Len(rows[1])
    IN  /\ IsVector(mx, n) /\ IsVector(av, n) /\ IsVector(sd, n)
        /\ \A j \in 1..n :
               \E w \in ReducedAs(Column(rows, j), angle) :
                   IsStatOf(w, Plain(mx).v[j], Plain(av).v[j], Plain(sd).v[j])

\* mx, av and sd are the statistics of the one vector v.
VectorReduced(mx, av, sd, v, angle) ==
    /\ IsScalar(mx) /\ IsScalar(av) /\ IsScalar(sd)
    /\ \E w \in ReducedAs(v, angle) : IsStatOf(w, Plain(mx).x, Plain(av).x, Plain(sd).x)

Est == data[LastName]
Ref == data[RefName(LastName)]

\* The errors by the statement of the two modes: last sample minus last
\* reference sample, one row per run in the order of the keys; and sample
\* minus reference sample, a trajectory of one sample standing for all.
EndError(a) == [j \in 1..NCols(a) |-> LastRow(a)[j] - LastRow(Ref)[j]]

EndErrors == [i \in 1..Len(Est.keys) |-> EndError(Est.runs[Est.keys[i]])]

ProcErrors(a) ==
    [i \in 1..Bigger(NRows(a), NRows(Ref)) |->
        [j \in 1..NCols(a) |->
            a.rows[Pick(NRows(a), i)][j] - Ref.rows[Pick(NRows(Ref), i)][j]]]

ShapesOk(a, end_point) ==
    /\ IsArr(a)
    /\ IsArr(Ref)
    /\ NCols(a) = NCols(Ref)
    /\ end_point \/ AxisOk(NRows(a), NRows(Ref))

StatCall(end_point) ==
    /\ last.op = "get_error_stat"
    /\ last.end_point = end_point
    /\ InList(LastName, available)
    /\ InList(RefName(LastName), available)

RunsOk(end_point) ==
    /\ IsDict(Est)
    /\ \A r \in DOMAIN Est.runs : ShapesOk(Est.runs[r], end_point)

GivesStat == ret.kind = "return" /\ ret.val.kind = "stat"

\* C6: in end-point mode, for a run-mapping and a bare reference, the error
\* of a run is its last sample minus the last sample of the reference, one
\* row per run, and max, avg and std are taken per column across the runs:
\* the largest absolute error, the mean and the population standard
\* deviation.  Runs ending in (10,0,0) and (12,0,0) against a reference
\* ending in (11,0,0) give max (1,0,0), avg (0,0,0) and std (1,0,0).
C6_EndPointAcrossRuns ==
    (StatCall(TRUE) /\ ~last.angle /\ RunsOk(TRUE)) =>
        /\ GivesStat
        /\ ColumnsReduced(ret.val.max, ret.val.avg, ret.val.std, EndErrors, FALSE)
        /\ (/\ Len(Est.keys) = 2
            /\ LastRow(Est.runs[Est.keys[1]]) = <<10, 0, 0>>
            /\ LastRow(Est.runs[Est.keys[2]]) = <<12, 0, 0>>
            /\ LastRow(Ref) = <<11, 0, 0>>)
               => (/\ EndErrors = <<<<-1, 0, 0>>, <<1, 0, 0>>>>
                   /\ Plain(ret.val.max).v = <<1, 0, 0>>
                   /\ Plain(ret.val.avg).v = <<<<0, 1>>, <<0, 1>>, <<0, 1>>>>
                   /\ Plain(ret.val.std).v = <<<<1, 1>>, <<0, 1>>, <<0, 1>>>>)

C6_Witness ==
    /\ StatCall(TRUE) /\ ~last.angle /\ RunsOk(TRUE)
    /\ Est.keys = <<0, 1>>
    /\ Est.runs[0].rows = <<<<12, 0, 0>>, <<10, 0, 0>>>>
    /\ Est.runs[1].rows = <<<<10, 0, 0>>, <<12, 0, 0>>>>
    /\ Ref.rows = <<<<-349, 180, -190>>, <<11, 0, 0>>>>
    /\ GivesStat
    /\ Plain(ret.val.max).v = <<1, 0, 0>>

\* C7: in process mode, for a run-mapping, the result has the three entries
\* max, avg and std, each a mapping whose keys are exactly the run keys of
\* the value, and the entry of run r is the statistic of run r's trajectory
\* minus the reference trajectory, the same whatever the other runs are.
StatEntries == {"max", "avg", "std"}

OnlyRun(r) ==
    GetErrorStatResult([data EXCEPT ![LastName] = Dict(<<r>>, [k \in {r} |-> Est.runs[r]])],
                       available, units, output_units, LastName,
                       last.end_point, last.angle, last.use_output_units)

C7_ProcessPerRun ==
    (StatCall(FALSE) /\ RunsOk(FALSE)) =>
        /\ GivesStat
        /\ DOMAIN ret.val = {"kind"} \cup StatEntries
        /\ \A s \in StatEntries :
               /\ IsDict(ret.val[s])
               /\ Len(ret.val[s].keys) = Len(Est.keys)
               /\ {ret.val[s].keys[i] : i \in 1..Len(Est.keys)} = DOMAIN Est.runs
               /\ DOMAIN ret.val[s].runs = DOMAIN Est.runs
        /\ \A r \in DOMAIN Est.runs :
               /\ ColumnsReduced(ret.val.max.runs[r], ret.val.avg.runs[r],
                                 ret.val.std.runs[r], ProcErrors(Est.runs[r]), last.angle)
               /\ \A s \in StatEntries : ret.val[s].runs[r] = OnlyRun(r).val[s].runs[r]

C7_Witness ==
    /\ StatCall(FALSE) /\ RunsOk(FALSE)
    /\ Est.keys = <<0, 1>>
    /\ Est.runs[0].rows = <<<<10, 0, 0>>, <<10, 0, 0>>>>
    /\ Est.runs[1].rows = <<<<10, 0, 0>>, <<12, 0, 0>>>>
    /\ Ref.rows = <<<<11, 0, 0>>>>
    /\ GivesStat
    /\ ret.val.avg.runs[0] # ret.val.avg.runs[1]
    /\ ret.val.std.runs[0] # ret.val.std.runs[1]

\* C8: for a bare array of m samples and n columns with a reference of the
\* same shape, max, avg and std are each a per-column result of length n,
\* in process mode and in end-point mode alike.
C8_BareArrayPerColumn ==
    (/\ last.op = "get_error_stat"
     /\ InList(LastName, available)
     /\ InList(RefName(LastName), available)
     /\ ShapesOk(Est, last.end_point)
     /\ NRows(Est) = NRows(Ref))
        => (/\ GivesStat
            /\ \A s \in StatEntries : IsVector(ret.val[s], NCols(Est)))

\* C9: with angle set every error is replaced, before max, avg and std are
\* taken, by the value in [-180, 180] a whole number of turns away from it,
\* so that an error of 359 is reduced as -1; with angle unset the errors
\* are reduced as they are.
C9_AngleWrapsErrors ==
    /\ (StatCall(TRUE) /\ RunsOk(TRUE)) =>
           /\ GivesStat
           /\ ColumnsReduced(ret.val.max, ret.val.avg, ret.val.std, EndErrors, last.angle)
    /\ (StatCall(TRUE) /\ ShapesOk(Est, TRUE)) =>
           /\ GivesStat
           /\ VectorReduced(ret.val.max, ret.val.avg, ret.val.std, EndError(Est), last.angle)
    /\ (StatCall(FALSE) /\ ShapesOk(Est, FALSE)) =>
           /\ GivesStat
           /\ ColumnsReduced(ret.val.max, ret.val.avg, ret.val.std, ProcErrors(Est),
                             last.angle)
    /\ (StatCall(FALSE) /\ RunsOk(FALSE)) =>
           /\ GivesStat
           /\ \A r \in DOMAIN Est.runs :
                  ColumnsReduced(ret.val.max.runs[r], ret.val.avg.runs[r],
                                 ret.val.std.runs[r], ProcErrors(Est.runs[r]), last.angle)

C9_Witness ==
    /\ StatCall(FALSE) /\ last.angle
    /\ ShapesOk(Est, FALSE)
    /\ Est.rows = <<<<10, 0, 0>>>>
    /\ Ref.rows = <<<<-349, 180, -190>>>>
    /\ ProcErrors(Est) = <<<<359, -180, 190>>>>
    /\ GivesStat
    /\ Plain(ret.val.avg).v[1] = <<-1, 1>>
    /\ Plain(ret.val.max).v = <<1, 180, 170>>

\* C10: get_data for an attitude series that is not available while its
\* counterpart is computes the series from the counterpart, stores it,
\* returns it and leaves its name available.
C10_GetDataDerives ==
    (/\ last.op = "get_data"
     /\ Len(last.names) = 1
     /\ LastName \in DOMAIN data_map
     /\ InList(data_map[LastName][1], available))
        => (/\ InList(LastName, available)
            /\ data[LastName] # NoneV
            /\ IsListOf(ret)
            /\ ret.val.items = <<data[LastName]>>)

\* C11: get_data, get_error_stat with every end_point, angle and
\* use_output_units, get_data_all and is_supported leave the value of every
\* series and the membership of every name in available as they were,
\* whether the call succeeds or fails; the one series that may change is an
\* attitude series asked of get_data while it is not available and its
\* counterpart is.
QueryOps == {"get_data", "get_error_stat", "get_data_all", "is_supported"}

MayMaterialize(n) ==
    /\ last'.op = "get_data"
    /\ InList(n, last'.names)
    /\ n \in DOMAIN data_map
    /\ ~InList(n, available)
    /\ InList(data_map[n][1], available)

C11_QueriesKeepState ==
    [][last'.op \in QueryOps =>
           \A n \in CatalogKeys \cup {"nosuch"} :
               \/ MayMaterialize(n)
               \/ /\ n \in CatalogKeys => data'[n] = data[n]
                  /\ InList(n, available') <=> InList(n, available)]_vars

C11_Witness ==
    /\ last.op = "get_error_stat"
    /\ last.angle
    /\ last.use_output_units
    /\ ~last.end_point
    /\ ret.kind = "return"
    /\ ret.val.kind = "stat"
    /\ IsArr(data["att_quat"])
    /\ NRows(data["att_quat"]) = 2

\* C12: a successful add_data(name, ...) changes the value of no series
\* but name, leaves every other name in available iff it was, and leaves
\* name in available once; in every reachable state no name occurs twice
\* in available.
C12_NoDuplicates ==
    \A i, j \in 1..Len(available) : available[i] = available[j] => i = j

C12_AddStep ==
    (last'.op = "add_data" /\ ret'.kind = "return") =>
        /\ Count(last'.names[1], available') = 1
        /\ \A n \in (CatalogKeys \cup {"nosuch"}) \ {last'.names[1]} :
               /\ n \in CatalogKeys => data'[n] = data[n]
               /\ InList(n, available') <=> InList(n, available)

C12_AddTouchesOneSeries == [](C12_NoDuplicates) /\ [][C12_AddStep]_vars

C12_Witness ==
    /\ last.op = "add_data"
    /\ ret.kind = "return"
    /\ LastName = "att_quat"
    /\ \E i, j \in 1..Len(available) :
           i < j /\ available[i] = "att_quat" /\ available[j] = "ref_att_quat"
    /\ data["ref_att_quat"] # NoneV

\* C13: for every series of the catalog, in either navigation frame, a
\* column stored in 'rad' has 'deg' as its output unit, the output units
\* of a series declared without any being its units; this holds for pos as
\* it does for ref_pos.
C13_RadiansShownAsDegrees ==
    \A n \in CatalogKeys :
        /\ Len(output_units[n]) = Len(units[n])
        /\ \A i \in 1..Len(units[n]) :
               units[n][i] = "rad" => output_units[n][i] = "deg"

(***************************************************************************)
(* Properties of the transforms of data_map.                               *)
(***************************************************************************)
DerivedFrom == data[data_map[LastName][1]]

Derived == data[LastName]

\* C14: when a transform is applied to a source whose value is a dict of
\* runs, then whatever the destination held before, it holds afterwards a
\* dict with exactly the source's keys, and its entry for a run has as many
\* samples as the source's entry for that run.
C14_RunMappingDerived ==
    (last.op = "derive" /\ IsDict(DerivedFrom)) =>
        /\ ret.kind = "return"
        /\ IsDict(Derived)
        /\ DOMAIN Derived.runs = DOMAIN DerivedFrom.runs
        /\ Len(Derived.keys) = Len(DerivedFrom.keys)
        /\ \A r \in DOMAIN DerivedFrom.runs :
               /\ IsArr(Derived.runs[r])
               /\ NRows(Derived.runs[r]) = NRows(DerivedFrom.runs[r])

\* C15: running the transform of a data_map entry with the entry's series
\* as source and the series of the entry's key as destination leaves in
\* the destination a value of its own representation: 3 columns for
\* ref_att_euler and att_euler, 4 columns for ref_att_quat and att_quat.
Width(name) == IF name \in {"ref_att_euler", "att_euler"} THEN 3 ELSE 4

C15_TargetRepresentation ==
    (/\ last.op = "derive"
     /\ IsArr(DerivedFrom)
     /\ NCols(DerivedFrom) = Width(data_map[LastName][1]))
        => (/\ ret.kind = "return"
            /\ IsArr(Derived)
            /\ NRows(Derived) = NRows(DerivedFrom)
            /\ NCols(Derived) = Width(LastName))

\* C16: every available name handed to plot is plotted, and the x axis
\* given to the container is gps_time for ref_gps, gps and gps_time, is
\* allan_t for ad_gyro, ad_accel and allan_t, whatever else is available,
\* algo_time included, and is a time axis for every other name.
Plotted(names) == SelectSeq(names, LAMBDA n : InList(n, available))

GpsDomain == {"ref_gps", "gps", "gps_time"}

AllanDomain == {"ad_gyro", "ad_accel", "allan_t"}

C16_PlotAxis ==
    last.op = "plot" =>
        /\ ret.kind = "return"
        /\ Len(ret.val.items) = Len(Plotted(last.names))
        /\ \A k \in 1..Len(ret.val.items) :
               LET c == ret.val.items[k]
               IN  /\ c.name = Plotted(last.names)[k]
                   /\ c.name \in GpsDomain => c.x_axis = "gps_time"
                   /\ c.name \in AllanDomain => c.x_axis = "allan_t"
                   /\ c.name \notin GpsDomain \cup AllanDomain
                          => c.x_axis \in {"time", "algo_time"}

====
